---- MODULE Spec2Model ----
(***************************************************************************)
(* Lot-tracked stock ledger of am_radiologia: core/backend.py (ledger,     *)
(* movement recorder, consumption, exams) and pages/exames.py (materials   *)
(* edit, cancellation).                                                    *)
(*                                                                         *)
(* Encoding of the Python values:                                          *)
(*   - quantities and balances are integers counting units of 1e-6, the    *)
(*     grid on which round(x, 6) stores balances; on that grid the         *)
(*     tolerance 1e-9 is below one unit, so "cur + 1e-9 < qtd" is          *)
(*     "cur < qtd" and "resto > 1e-9" is "resto > 0";                      *)
(*   - a lot code is a string, None and "" are both "" (the code compares  *)
(*     "x or None");                                                       *)
(*   - an expiry is an integer that orders as the ISO string does:         *)
(*     0 is None/"", 1 is the placeholder "-" that list_material_batches   *)
(*     prints, 2 and 3 are two dates, 9 is the sentinel "9999-99-99";      *)
(*   - a lot id of 0 is None;                                              *)
(*   - an optional unit cost is <<>> (None) or <<v>>.                      *)
(* The ledger (estoque.json) is a function from the material keys present  *)
(* in the file to the list of lots of that material.                       *)
(***************************************************************************)
EXTENDS Integers, Sequences, FiniteSets, TLC

VARIABLES materials,        \* materials.json: sequence of [id, estoque_inicial]
          estoque,          \* estoque.json: material key -> sequence of lots
          movements,        \* stock_movements.json: sequence of movement records
          exams,            \* exams.json: sequence of exam records
          ret,              \* the last completed call: operation, arguments, outcome
          th                \* the request threads of the concurrent specification

vars == <<materials, estoque, movements, exams, ret, th>>

(* ------------------------------ bounds -------------------------------- *)
MaxMovs == 2        \* movement records the log may hold
MaxExams == 2       \* exam records the exam collection may hold
MaxQty == 2         \* largest quantity of one request

(* ----------------------------- encodings ------------------------------ *)
NoLote == ""
NoValidade == 0
Dash == 1
DashLote == "-"
Sentinel == 9
NoLotId == 0
NoValor == <<>>

MatIds == {1, 2}
Tipos == {"entrada", "saida", "ajuste"}

Min2(a, b) == IF a < b THEN a ELSE b
SetMax(S) == CHOOSE x \in S : \A y \in S : y <= x
SetMin(S) == CHOOSE x \in S : \A y \in S : x <= y

RECURSIVE SeqSum(_)
SeqSum(s) == IF s = <<>> THEN 0 ELSE Head(s) + SeqSum(Tail(s))

(* ------------------------- ledger helpers ----------------------------- *)
\* est.get(str(mid), []) or []
Rows(est, mid) == IF mid \in DOMAIN est THEN est[mid] ELSE <<>>

\* est.setdefault(str(mid), [])
SetDefault(est, mid) == IF mid \in DOMAIN est THEN est ELSE est @@ (mid :> <<>>)

_all_batch_max_id(est) ==
    LET ids == UNION {{est[m][i].id : i \in DOMAIN est[m]} : m \in DOMAIN est}
    IN  IF ids = {} THEN 0 ELSE SetMax(ids)

\* index of the first row with the pair (lote, validade), 0 for None
_find_batch(est, mid, lote, validade) ==
    LET rows == Rows(est, mid)
        hits == {i \in DOMAIN rows : rows[i].lote = lote /\ rows[i].validade = validade}
    IN  IF hits = {} THEN 0 ELSE SetMin(hits)

\* the ledger after the call and the index of the lot it returns
_ensure_batch(est, mid, lote, validade) ==
    LET est1 == SetDefault(est, mid)
        i == _find_batch(est1, mid, lote, validade)
        b == [id |-> _all_batch_max_id(est1) + 1, lote |-> lote,
              validade |-> validade, saldo |-> 0]
    IN  IF i # 0 THEN [est |-> est1, idx |-> i]
        ELSE [est |-> [est1 EXCEPT ![mid] = Append(@, b)], idx |-> Len(est1[mid]) + 1]

\* list.sort(key=...) is stable: ascending key, equal keys in list order.
\* keys is a function from the indices in S to their sort keys.
RECURSIVE StableOrder(_, _)
StableOrder(keys, S) ==
    IF S = {} THEN <<>>
    ELSE LET i == CHOOSE i \in S : \A j \in S :
                      keys[i] < keys[j] \/ (keys[i] = keys[j] /\ i <= j)
         IN  <<i>> \o StableOrder(keys, S \ {i})

\* variant: a missing expiry keeps its own (smallest) key
FifoKey_nosentinel(validade) == validade

FifoKey(validade) == IF validade = NoValidade THEN Sentinel ELSE validade

\* the indices of the rows with saldo > 0, in consumption order
_fifo_batches(est, mid) ==
    LET rows == Rows(est, mid)
    IN  StableOrder([i \in DOMAIN rows |-> FifoKey(rows[i].validade)],
                    {i \in DOMAIN rows : rows[i].saldo > 0})

_sum_batches(est, mid) ==
    LET rows == Rows(est, mid)
    IN  SeqSum([i \in DOMAIN rows |-> rows[i].saldo])

_next_id(items) ==
    IF items = <<>> THEN 1 ELSE SetMax({items[i].id : i \in DOMAIN items} \cup {0}) + 1

(* -------------------- add_stock_movement ------------------------------ *)
new_mov(rows, rec) ==
    [id |-> _next_id(rows), material_id |-> rec.material_id, tipo |-> rec.tipo,
     quantidade |-> rec.quantidade, lote |-> rec.lote, validade |-> rec.validade,
     valor_unitario |-> rec.valor_unitario, obs |-> rec.obs]

\* variant that skips the quantity test of line 622
valid_mov_anyqty(mov) == mov.tipo \in Tipos
valid_mov(mov) == mov.tipo \in Tipos /\ mov.quantidade > 0

\* debit of one lot found by its pair (lines 640-647, 685-692)
debit_lote(est, mid, lote, validade, qtd) ==
    LET at(i) ==
          IF i = 0 THEN [ok |-> FALSE, err |-> "LotNotFound", est |-> est]
          ELSE IF est[mid][i].saldo < qtd
               THEN [ok |-> FALSE, err |-> "InsufficientBalance", est |-> est]
               ELSE [ok |-> TRUE, err |-> "", est |-> [est EXCEPT ![mid][i].saldo = @ - qtd]]
    IN  at(_find_batch(est, mid, lote, validade))

\* variant: the loop takes the whole remainder from the first lot
RECURSIVE fifo_take_nomin(_, _, _)
fifo_take_nomin(rows, order, resto) ==
    IF order = <<>> \/ resto <= 0 THEN [rows |-> rows, resto |-> resto]
    ELSE LET i == Head(order)
             cur == rows[i].saldo
             take == resto
         IN  IF cur <= 0 THEN fifo_take_nomin(rows, Tail(order), resto)
             ELSE fifo_take_nomin([rows EXCEPT ![i].saldo = cur - take], Tail(order), resto - take)

\* the loop of lines 650-658: rows after the loop and the quantity left
RECURSIVE fifo_take(_, _, _)
fifo_take(rows, order, resto) ==
    IF order = <<>> \/ resto <= 0 THEN [rows |-> rows, resto |-> resto]
    ELSE LET i == Head(order)
             cur == rows[i].saldo
             take == Min2(cur, resto)
         IN  IF cur <= 0 THEN fifo_take(rows, Tail(order), resto)
             ELSE fifo_take([rows EXCEPT ![i].saldo = cur - take], Tail(order), resto - take)

\* unlotted debit (lines 649-660, 694-705); est is the in-memory ledger
debit_fifo(est, mid, qtd) ==
    LET after(r) ==
          [ok |-> r.resto <= 0,
           err |-> IF r.resto > 0 THEN "InsufficientBalance" ELSE "",
           est |-> IF mid \in DOMAIN est THEN [est EXCEPT ![mid] = r.rows] ELSE est]
    IN  after(fifo_take(Rows(est, mid), _fifo_batches(est, mid), qtd))

\* variant that sets the balance of the lot to the quantity
credit_set(est, mid, lote, validade, qtd) ==
    LET add(e) == [ok |-> TRUE, err |-> "",
                   est |-> [e.est EXCEPT ![mid][e.idx].saldo = qtd]]
    IN  add(_ensure_batch(est, mid, lote, validade))
credit(est, mid, lote, validade, qtd) ==
    LET add(e) == [ok |-> TRUE, err |-> "",
                   est |-> [e.est EXCEPT ![mid][e.idx].saldo = @ + qtd]]
    IN  add(_ensure_batch(est, mid, lote, validade))

debit(est, mid, lote, validade, qtd) ==
    IF lote # NoLote \/ validade # NoValidade
    THEN debit_lote(est, mid, lote, validade, qtd)
    ELSE debit_fifo(est, mid, qtd)

HasPlus(obs) == obs \in {"+", "+-"}
HasMinus(obs) == obs \in {"-", "+-"}

ajuste_positivo(mov) ==
    LET p == mov.valor_unitario # NoValor \/ (HasPlus(mov.obs) /\ ~HasMinus(mov.obs))
    IN  IF HasMinus(mov.obs) /\ ~HasPlus(mov.obs) THEN FALSE ELSE p

\* lines 629-705: the in-memory ledger after applying mov, and whether it raised
apply_movement(est, mov) ==
    IF mov.tipo = "entrada" \/ (mov.tipo = "ajuste" /\ ajuste_positivo(mov))
    THEN credit(est, mov.material_id, mov.lote, mov.validade, mov.quantidade)
    ELSE debit(est, mov.material_id, mov.lote, mov.validade, mov.quantidade)

\* the whole call on the persisted movement log and ledger
add_stock_movement(rec, rows, est) ==
    LET synced(mov, a) ==
          [ok |-> a.ok, err |-> a.err, rows |-> Append(rows, mov),
           est |-> IF a.ok THEN a.est ELSE est, id |-> mov.id]
        persisted(mov) ==
          IF ~valid_mov(mov)
          THEN [ok |-> FALSE, err |-> "ValidationError", rows |-> rows, est |-> est, id |-> 0]
          ELSE synced(mov, apply_movement(est, mov))
    IN  persisted(new_mov(rows, rec))

(* ------------------- consume_stock_by_batches ------------------------- *)
\* variant: the row gives what it has instead of raising
_dec_clamp(est, mid, i, q) ==
    [ok |-> TRUE, err |-> "", est |-> [est EXCEPT ![mid][i].saldo = @ - Min2(@, q)]]
\* _dec: debit of the row at index i (lines 766-770)
_dec(est, mid, i, q) ==
    IF est[mid][i].saldo < q
    THEN [ok |-> FALSE, err |-> "InsufficientBalance", est |-> est]
    ELSE [ok |-> TRUE, err |-> "", est |-> [est EXCEPT ![mid][i].saldo = @ - q]]

\* the loop of lines 789-797 over the rows of _fifo(mid)
RECURSIVE consume_fifo(_, _, _, _)
consume_fifo(est, mid, order, restante) ==
    IF order = <<>> \/ restante <= 0 THEN [est |-> est, restante |-> restante]
    ELSE LET i == Head(order)
             saldo == est[mid][i].saldo
             cons == Min2(saldo, restante)
         IN  IF saldo <= 0 THEN consume_fifo(est, mid, Tail(order), restante)
             ELSE consume_fifo(_dec(est, mid, i, cons).est, mid, Tail(order), restante - cons)

\* one item of the list (lines 773-799) on the in-memory ledger
consume_item(est, it) ==
    LET mid == it.material_id
        qtd == it.quantidade
        by_id(est1) ==
          LET hits == {i \in DOMAIN est1[mid] : est1[mid][i].id = it.lote_id}
          IN  IF hits = {} THEN [ok |-> FALSE, err |-> "LotNotFound", est |-> est1]
              ELSE _dec(est1, mid, SetMax(hits), qtd)
        fifo(r) ==
          [ok |-> r.restante <= 0,
           err |-> IF r.restante > 0 THEN "InsufficientBalance" ELSE "",
           est |-> r.est]
    IN  IF qtd <= 0 THEN [ok |-> TRUE, err |-> "", est |-> est]
        ELSE IF it.lote_id # NoLotId THEN by_id(SetDefault(est, mid))
        ELSE fifo(consume_fifo(est, mid, _fifo_batches(est, mid), qtd))

\* the for loop of line 772: stops at the first item that raises
RECURSIVE consume_items(_, _)
consume_items(est, items) ==
    LET next(r) == IF r.ok THEN consume_items(r.est, Tail(items)) ELSE r
    IN  IF items = <<>> THEN [ok |-> TRUE, err |-> "", est |-> est]
        ELSE next(consume_item(est, Head(items)))

\* variant: the in-memory ledger is written back even when an item raised
consume_stock_by_batches_partial(items, est) ==
    LET written(r) == [ok |-> r.ok, err |-> r.err, est |-> r.est]
    IN  IF items = <<>> THEN [ok |-> TRUE, err |-> "", est |-> est]
        ELSE written(consume_items(est, items))

\* the whole call: est is the persisted ledger after it
consume_stock_by_batches(items, est) ==
    LET written(r) == [ok |-> r.ok, err |-> r.err, est |-> IF r.ok THEN r.est ELSE est]
    IN  IF items = <<>> THEN [ok |-> TRUE, err |-> "", est |-> est]
        ELSE written(consume_items(est, items))

(* ------------------------ add_or_update_exam -------------------------- *)
\* the items kept by estimate_items_cost (price and subtotal are not modelled)
estimate_items_cost(items) == SelectSeq(items, LAMBDA it : it.quantidade > 0)

\* variant: the insert path also records one exit per consumed item
RECURSIVE exam_saidas(_, _)
exam_saidas(rows, itens) ==
    IF itens = <<>> THEN rows
    ELSE exam_saidas(Append(rows, [id |-> _next_id(rows), material_id |-> Head(itens).material_id,
                                   tipo |-> "saida", quantidade |-> Head(itens).quantidade,
                                   lote |-> NoLote, validade |-> NoValidade,
                                   valor_unitario |-> NoValor, obs |-> "Consumo exame"]),
                     Tail(itens))

add_or_update_exam_logged(exam, exs, est, rows) ==
    LET hits == {i \in DOMAIN exs : exs[i].id = exam.id}
        nid == _next_id(exs)
        inserted(itens, c) ==
          IF ~c.ok
          THEN [ok |-> FALSE, err |-> c.err, exams |-> exs, est |-> c.est, rows |-> rows, id |-> 0]
          ELSE [ok |-> TRUE, err |-> "",
                exams |-> Append(exs, [exam EXCEPT !.materiais_usados = itens, !.id = nid]),
                est |-> c.est, rows |-> exam_saidas(rows, itens), id |-> nid]
        insert(itens) == inserted(itens, consume_stock_by_batches(itens, est))
    IN  IF exam.id # 0 /\ hits # {}
        THEN [ok |-> TRUE, err |-> "", exams |-> [exs EXCEPT ![SetMin(hits)] = exam],
              est |-> est, rows |-> rows, id |-> exam.id]
        ELSE insert(estimate_items_cost(exam.materiais_usados))

\* rows is the movement log: the insert path leaves it alone (lines 357-358)
add_or_update_exam(exam, exs, est, rows) ==
    LET hits == {i \in DOMAIN exs : exs[i].id = exam.id}
        nid == _next_id(exs)
        inserted(itens, c) ==
          IF ~c.ok
          THEN [ok |-> FALSE, err |-> c.err, exams |-> exs, est |-> c.est, rows |-> rows, id |-> 0]
          ELSE [ok |-> TRUE, err |-> "",
                exams |-> Append(exs, [exam EXCEPT !.materiais_usados = itens, !.id = nid]),
                est |-> c.est, rows |-> rows, id |-> nid]
        insert(itens) == inserted(itens, consume_stock_by_batches(itens, est))
    IN  IF exam.id # 0 /\ hits # {}
        THEN [ok |-> TRUE, err |-> "", exams |-> [exs EXCEPT ![SetMin(hits)] = exam],
              est |-> est, rows |-> rows, id |-> exam.id]
        ELSE insert(estimate_items_cost(exam.materiais_usados))

(* ------------------------ list_material_batches ----------------------- *)
\* the lots with saldo > 0 as the UI sees them: missing code and expiry print
\* as "-", sorted by the printed expiry
list_material_batches(est, mid) ==
    LET shown(b) == [id |-> b.id,
                     lote |-> IF b.lote = NoLote THEN DashLote ELSE b.lote,
                     validade |-> IF b.validade = NoValidade THEN Dash ELSE b.validade,
                     saldo |-> b.saldo]
        listed(rows, order) == [k \in DOMAIN order |-> shown(rows[order[k]])]
        sorted(rows) ==
          listed(rows, StableOrder([i \in DOMAIN rows |-> FifoKey(shown(rows[i]).validade)],
                                   {i \in DOMAIN rows : rows[i].saldo > 0}))
    IN  sorted(Rows(est, mid))

\* next((x for x in list_material_batches(mid) if x.get("id") == lid), {}):
\* the code and expiry the caller reads from it, None for {}
batch_by_id(est, mid, lid) ==
    LET found(bs, hits) ==
          IF hits = {} THEN [lote |-> NoLote, validade |-> NoValidade]
          ELSE [lote |-> bs[SetMin(hits)].lote, validade |-> bs[SetMin(hits)].validade]
        lookup(bs) == found(bs, {k \in DOMAIN bs : bs[k].id = lid})
    IN  lookup(list_material_batches(est, mid))

(* ---------------------- pages/exames.py ------------------------------- *)
MovRec(mid, tipo, qtd, lote, validade, vu, obs) ==
    [material_id |-> mid, tipo |-> tipo, quantidade |-> qtd, lote |-> lote,
     validade |-> validade, valor_unitario |-> vu, obs |-> obs]

\* one add_stock_movement call inside a handler; once a call has raised, the
\* exception propagates and the later calls do not happen
call_mov(S, rec) ==
    LET returned(r) == [ok |-> r.ok, err |-> r.err, rows |-> r.rows, est |-> r.est]
    IN  IF ~S.ok THEN S ELSE returned(add_stock_movement(rec, S.rows, S.est))

\* the (material_id, lote_id) keys of a usage list and the quantity per key
ItemKeys(items) == {<<items[i].material_id, items[i].lote_id>> : i \in DOMAIN items}

RECURSIVE AggQty(_, _)
AggQty(items, k) ==
    IF items = <<>> THEN 0
    ELSE (IF <<Head(items).material_id, Head(items).lote_id>> = k
          THEN Head(items).quantidade ELSE 0) + AggQty(Tail(items), k)

\* variant: the difference is taken the other way round
Delta_reversed(new_items, old_items, k) == AggQty(old_items, k) - AggQty(new_items, k)

Delta(new_items, old_items, k) == AggQty(new_items, k) - AggQty(old_items, k)

\* the add_stock_movement calls of one handler, in order
RECURSIVE call_movs(_, _)
call_movs(S, recs) ==
    IF recs = <<>> THEN S ELSE call_movs(call_mov(S, Head(recs)), Tail(recs))

\* lines 1026-1042: the exits requested for an unlotted key, from the batches
\* listed before the loop: one per batch with take > 0, then the residual
RECURSIVE fifo_exits(_, _, _)
fifo_exits(mid, batches, need) ==
    IF batches = <<>>
    THEN IF need > 0
         THEN <<MovRec(mid, "saida", need, NoLote, NoValidade, NoValor,
                       "Ajuste materiais exame (residual)")>>
         ELSE <<>>
    ELSE IF need <= 0 THEN <<>>
    ELSE LET exit(b, take) ==
               IF take > 0
               THEN <<MovRec(mid, "saida", take, b.lote, b.validade, NoValor,
                             "Ajuste materiais exame (FIFO)")>>
                    \o fifo_exits(mid, Tail(batches), need - take)
               ELSE fifo_exits(mid, Tail(batches), need)
         IN  exit(Head(batches), Min2(need, Head(batches).saldo))

\* line 1025: batches.sort(key=lambda b: (b.get("validade") or ""))
sorted_batches(bs) ==
    LET pick(order) == [j \in DOMAIN order |-> bs[order[j]]]
    IN  pick(StableOrder([i \in DOMAIN bs |-> bs[i].validade], DOMAIN bs))

\* the body of the loop of line 1004 for one key: the movements it requests,
\* est being the ledger on file when the key is reached
delta_movs(est, k, diff) ==
    LET mid == k[1]
        lotted(b) ==
          IF diff > 0
          THEN <<MovRec(mid, "saida", diff, b.lote, b.validade, NoValor,
                        "Ajuste materiais exame")>>
          ELSE <<MovRec(mid, "entrada", -diff, b.lote, b.validade, NoValor,
                        "Estorno materiais exame")>>
    IN  IF diff = 0 THEN <<>>
        ELSE IF k[2] # NoLotId THEN lotted(batch_by_id(est, mid, k[2]))
        ELSE IF diff > 0
        THEN fifo_exits(mid, sorted_batches(list_material_batches(est, mid)), diff)
        ELSE <<MovRec(mid, "entrada", -diff, NoLote, NoValidade, NoValor,
                      "Estorno materiais exame")>>

apply_delta(S, k, diff) == call_movs(S, delta_movs(S.est, k, diff))

\* order is the sequence in which deltas.items() yields the keys
RECURSIVE apply_deltas(_, _, _, _)
apply_deltas(S, order, new_items, old_items) ==
    IF order = <<>> THEN S
    ELSE apply_deltas(apply_delta(S, Head(order), Delta(new_items, old_items, Head(order))),
                      Tail(order), new_items, old_items)

ExamIdx(exs, exid) ==
    LET hits == {i \in DOMAIN exs : exs[i].id = exid}
    IN  IF hits = {} THEN 0 ELSE SetMin(hits)

_apply_materials(exid, new_items, old_items, order, exs, rows, est) ==
    LET i == ExamIdx(exs, exid)
        stored(u) ==
          [status |-> "Done", err |-> "", rows |-> u.rows, est |-> u.est, exams |-> u.exams]
        adjusted(S) ==
          IF ~S.ok
          THEN [status |-> "Raised", err |-> S.err, rows |-> S.rows, est |-> S.est, exams |-> exs]
          ELSE stored(add_or_update_exam([exs[i] EXCEPT !.materiais_usados = new_items],
                                         exs, S.est, S.rows))
    IN  IF exid = 0
        THEN [status |-> "PreventUpdate", err |-> "", rows |-> rows, est |-> est, exams |-> exs]
        ELSE IF i = 0
        THEN [status |-> "NotFound", err |-> "", rows |-> rows, est |-> est, exams |-> exs]
        ELSE IF exs[i].cancelado
        THEN [status |-> "Cancelled", err |-> "", rows |-> rows, est |-> est, exams |-> exs]
        ELSE adjusted(apply_deltas([ok |-> TRUE, err |-> "", rows |-> rows, est |-> est],
                                   order, new_items, old_items))

\* variant: the cancellation issues no entries
cancel_entries_none(S, used) == S

\* the loop of lines 1158-1174 over the usage items, in list order
RECURSIVE cancel_entries(_, _)
cancel_entries(S, used) ==
    LET entry(it, b) == MovRec(it.material_id, "entrada", it.quantidade, b.lote, b.validade,
                               NoValor, "Cancelamento exame")
        batch(it) == IF it.lote_id # NoLotId
                     THEN batch_by_id(S.est, it.material_id, it.lote_id)
                     ELSE [lote |-> NoLote, validade |-> NoValidade]
    IN  IF used = <<>> THEN S
        ELSE cancel_entries(call_mov(S, entry(Head(used), batch(Head(used)))), Tail(used))

_confirm_cancel_exam(exid, exs, rows, est) ==
    LET i == ExamIdx(exs, exid)
        stored(u) ==
          [status |-> "Done", err |-> "", rows |-> u.rows, est |-> u.est, exams |-> u.exams]
        reversed(S) ==
          IF ~S.ok
          THEN [status |-> "Raised", err |-> S.err, rows |-> S.rows, est |-> S.est, exams |-> exs]
          ELSE stored(add_or_update_exam([exs[i] EXCEPT !.materiais_usados = <<>>,
                                                        !.cancelado = TRUE],
                                         exs, S.est, S.rows))
    IN  IF exid = 0
        THEN [status |-> "PreventUpdate", err |-> "", rows |-> rows, est |-> est, exams |-> exs]
        ELSE IF i = 0
        THEN [status |-> "NotFound", err |-> "", rows |-> rows, est |-> est, exams |-> exs]
        ELSE IF exs[i].cancelado
        THEN [status |-> "Cancelled", err |-> "", rows |-> rows, est |-> est, exams |-> exs]
        ELSE reversed(cancel_entries([ok |-> TRUE, err |-> "", rows |-> rows, est |-> est],
                                     exs[i].materiais_usados))

(* --------------------------- delete_material -------------------------- *)
CatalogIds(mats) == {mats[i].id : i \in DOMAIN mats}

\* variant that filters the catalog and leaves the ledger alone
delete_material_nocascade(mid, mats, est) ==
    LET rows == SelectSeq(mats, LAMBDA m : m.id # mid)
    IN  [materials |-> rows, est |-> est, ret |-> Len(rows) < Len(mats)]
delete_material(mid, mats, est) ==
    LET rows == SelectSeq(mats, LAMBDA m : m.id # mid)
    IN  [materials |-> rows,
         est |-> IF mid \in DOMAIN est THEN [m \in DOMAIN est \ {mid} |-> est[m]] ELSE est,
         ret |-> Len(rows) < Len(mats)]

(* ---------------------- pages/estoque.py ------------------------------ *)
\* save_movement, lines 527-588: the form is validated, the pair of the chosen
\* lot is read back from list_material_batches, an expiry typed in the form
\* replaces it, a unit cost is passed on for entries and adjustments only, and
\* add_stock_movement is called; an exception becomes an error alert. mid = 0
\* and lote_val = 0 stand for None.
save_movement(mid, inp, rows, est) ==
    LET alerted(r) == [status |-> IF r.ok THEN "ok" ELSE "erro", err |-> r.err,
                       rows |-> r.rows, est |-> r.est]
        typed(b) == MovRec(mid, inp.tipo, inp.qtd, b.lote,
                           IF inp.validade # NoValidade THEN inp.validade ELSE b.validade,
                           IF inp.tipo \in {"entrada", "ajuste"} THEN inp.valor ELSE NoValor,
                           inp.obs)
    IN  IF mid = 0 \/ inp.tipo \notin Tipos \/ inp.qtd <= 0
        THEN [status |-> "invalid", err |-> "", rows |-> rows, est |-> est]
        ELSE alerted(add_stock_movement(
               typed(IF inp.lote_val # NoLotId THEN batch_by_id(est, mid, inp.lote_val)
                     ELSE [lote |-> NoLote, validade |-> NoValidade]),
               rows, est))

(* ------------------ add_material, snapshot ---------------------------- *)
\* lines 535-549: the record gets the id _nx_id(rows) and is appended
add_material(rec, mats) ==
    LET stored(nid) ==
          [materials |-> Append(mats, [id |-> nid, estoque_inicial |-> rec.estoque_inicial]),
           id |-> nid]
    IN  stored(_next_id(mats))

\* lines 174-180: quantity used by all exams, per material
RECURSIVE aggregate_exam_material_usage(_, _)
aggregate_exam_material_usage(exs, mid) ==
    IF exs = <<>> THEN 0
    ELSE SeqSum([k \in DOMAIN Head(exs).materiais_usados |->
                   IF Head(exs).materiais_usados[k].material_id = mid
                   THEN Head(exs).materiais_usados[k].quantidade ELSE 0])
         + aggregate_exam_material_usage(Tail(exs), mid)

\* lines 182-197: logged quantity per material and kind
RECURSIVE aggregate_manual_movements(_, _, _)
aggregate_manual_movements(rows, mid, tipo) ==
    IF rows = <<>> THEN 0
    ELSE (IF Head(rows).material_id = mid /\ Head(rows).tipo = tipo
          THEN Head(rows).quantidade ELSE 0)
         + aggregate_manual_movements(Tail(rows), mid, tipo)

\* variant that uses the ledger only when it holds a positive balance
snapshot_atual_positive(m, exs, rows, est) ==
    IF m.id \in DOMAIN est /\ _sum_batches(est, m.id) > 0
    THEN _sum_batches(est, m.id)
    ELSE m.estoque_inicial + aggregate_manual_movements(rows, m.id, "entrada")
         - aggregate_manual_movements(rows, m.id, "saida")
         + aggregate_manual_movements(rows, m.id, "ajuste")
         - aggregate_exam_material_usage(exs, m.id)

\* lines 267-271: estoque_atual of one catalog record
snapshot_atual(m, exs, rows, est) ==
    IF m.id \in DOMAIN est /\ Len(est[m.id]) > 0
    THEN _sum_batches(est, m.id)
    ELSE m.estoque_inicial + aggregate_manual_movements(rows, m.id, "entrada")
         - aggregate_manual_movements(rows, m.id, "saida")
         + aggregate_manual_movements(rows, m.id, "ajuste")
         - aggregate_exam_material_usage(exs, m.id)

\* lines 247-282: one row per catalog record. The rows are sorted by name,
\* which the catalog records here do not carry: the stable sort over equal
\* keys leaves them in catalog order.
compute_stock_snapshot(mats, exs, rows, est) ==
    [i \in DOMAIN mats |->
       [id |-> mats[i].id, estoque_inicial |-> mats[i].estoque_inicial,
        consumo_exames |-> aggregate_exam_material_usage(exs, mats[i].id),
        entradas |-> aggregate_manual_movements(rows, mats[i].id, "entrada"),
        saidas |-> aggregate_manual_movements(rows, mats[i].id, "saida"),
        ajustes |-> aggregate_manual_movements(rows, mats[i].id, "ajuste"),
        estoque_atual |-> snapshot_atual(mats[i], exs, rows, est)]]

(* ------------------------------ state --------------------------------- *)
Lot(id, lote, validade, saldo) ==
    [id |-> id, lote |-> lote, validade |-> validade, saldo |-> saldo]

Material(id, ini) == [id |-> id, estoque_inicial |-> ini]

Item(mid, lid, q) == [material_id |-> mid, lote_id |-> lid, quantidade |-> q]

Exam(id, used, cancelado) == [id |-> id, materiais_usados |-> used, cancelado |-> cancelado]

\* the data directory as init_files leaves it (seed of lines 110-154, scaled):
\* material 1 holds three lots whose file order is not their expiry order,
\* one of them without expiry; exam 1 uses material 1 without a lot
InitEstoque ==
    (1 :> <<Lot(1, NoLote, NoValidade, 1), Lot(2, "L1", 3, 2), Lot(3, "L1", 2, 1)>>)
    @@ (2 :> <<Lot(4, "L1", 2, 1)>>)

Init ==
    /\ materials = <<Material(1, 4), Material(2, 1)>>
    /\ estoque = InitEstoque
    /\ movements = <<>>
    /\ exams = <<Exam(1, <<Item(1, NoLotId, 1)>>, FALSE)>>
    /\ ret = [op |-> "init"]
    /\ th = <<>>

(* ------------------------------ inputs -------------------------------- *)
\* manual movements of the ledger specification: entries that credit an
\* existing pair or create a lot, unlotted and lot-targeted exits, a debit
\* adjustment and a malformed request
MovRecs ==
    {MovRec(1, "entrada", 1, NoLote, NoValidade, NoValor, ""),
     MovRec(1, "entrada", 1, NoLote, 2, NoValor, ""),
     MovRec(1, "entrada", 1, "L1", 2, NoValor, ""),
     MovRec(2, "entrada", 1, NoLote, NoValidade, NoValor, ""),
     MovRec(1, "saida", 1, NoLote, NoValidade, NoValor, ""),
     MovRec(1, "saida", MaxQty, NoLote, NoValidade, NoValor, ""),
     MovRec(1, "saida", MaxQty + 3, NoLote, NoValidade, NoValor, ""),
     MovRec(1, "saida", MaxQty, "L1", 2, NoValor, ""),
     MovRec(1, "saida", 1, NoLote, 2, NoValor, ""),
     MovRec(1, "ajuste", 1, NoLote, NoValidade, NoValor, "-"),
     MovRec(1, "entrada", 0, NoLote, NoValidade, NoValor, ""),
     MovRec(1, "devolucao", 1, NoLote, NoValidade, NoValor, "")}

\* manual movements of the exam specification
ExamMovRecs ==
    {MovRec(1, "entrada", 1, NoLote, NoValidade, NoValor, ""),
     MovRec(1, "saida", MaxQty, NoLote, NoValidade, NoValor, "")}

\* item lists of consumption requests
ItemLists ==
    {<<>>,
     <<Item(1, NoLotId, 1)>>,
     <<Item(1, NoLotId, MaxQty)>>,
     <<Item(1, 2, 1)>>,
     <<Item(1, 2, MaxQty + 1)>>,
     <<Item(2, 2, 1)>>,
     <<Item(1, NoLotId, 1), Item(2, NoLotId, MaxQty)>>,
     <<Item(1, 2, 1), Item(1, NoLotId, MaxQty + 2)>>}

\* usage lists of exams
UsageLists ==
    {<<>>,
     <<Item(1, NoLotId, 1)>>,
     <<Item(1, NoLotId, MaxQty)>>,
     <<Item(2, NoLotId, MaxQty)>>}

Perms(S) ==
    {f \in [1..Cardinality(S) -> S] : \A i, j \in 1..Cardinality(S) : f[i] = f[j] => i = j}

UsageOf(exid) ==
    IF ExamIdx(exams, exid) = 0 THEN <<>> ELSE exams[ExamIdx(exams, exid)].materiais_usados

(* ------------------------------ actions ------------------------------- *)
AddStockMovement(rec) ==
    /\ Len(movements) < MaxMovs
    /\ LET returns(r) ==
             /\ movements' = r.rows
             /\ estoque' = r.est
             /\ ret' = [op |-> "add_stock_movement", args |-> rec,
                        ok |-> r.ok, err |-> r.err]
       IN  returns(add_stock_movement(rec, movements, estoque))
    /\ UNCHANGED <<materials, exams, th>>

ConsumeStockByBatches(items) ==
    /\ LET returns(r) ==
             /\ estoque' = r.est
             /\ ret' = [op |-> "consume_stock_by_batches", args |-> items,
                        ok |-> r.ok, err |-> r.err]
       IN  returns(consume_stock_by_batches(items, estoque))
    /\ UNCHANGED <<materials, movements, exams, th>>

AddOrUpdateExam(exam) ==
    /\ LET returns(r) ==
             /\ Len(r.exams) <= MaxExams
             /\ Len(r.rows) <= MaxMovs
             /\ exams' = r.exams
             /\ estoque' = r.est
             /\ movements' = r.rows
             /\ ret' = [op |-> "add_or_update_exam", args |-> exam.id, ok |-> r.ok,
                        err |-> r.err, id |-> r.id]
       IN  returns(add_or_update_exam(exam, exams, estoque, movements))
    /\ UNCHANGED <<materials, th>>

\* The materials modal of one session: _open_mat_modal stores the exam's id
\* and usage (ex_current_id, ex_mat_original), the item handlers build
\* new_items in ex_mat_store, and the done button runs _apply_materials with
\* the three stores. The modal blocks the page, so the stored usage is the
\* exam's usage when the button is pressed.
ApplyMaterials(exid, new_items, order) ==
    /\ ExamIdx(exams, exid) # 0
    /\ order \in Perms(ItemKeys(new_items) \cup ItemKeys(UsageOf(exid)))
    /\ LET returns(r) ==
             /\ Len(r.rows) <= MaxMovs
             /\ movements' = r.rows
             /\ estoque' = r.est
             /\ exams' = r.exams
             /\ ret' = [op |-> "_apply_materials", args |-> exid, new_items |-> new_items,
                        status |-> r.status, err |-> r.err]
       IN  returns(_apply_materials(exid, new_items, UsageOf(exid), order,
                                    exams, movements, estoque))
    /\ UNCHANGED <<materials, th>>

ConfirmCancelExam(exid) ==
    /\ LET returns(r) ==
             /\ Len(r.rows) <= MaxMovs
             /\ movements' = r.rows
             /\ estoque' = r.est
             /\ exams' = r.exams
             /\ ret' = [op |-> "_confirm_cancel_exam", args |-> exid, status |-> r.status,
                        err |-> r.err]
       IN  returns(_confirm_cancel_exam(exid, exams, movements, estoque))
    /\ UNCHANGED <<materials, th>>

DeleteMaterial(mid) ==
    /\ LET r == delete_material(mid, materials, estoque)
       IN  /\ materials' = r.materials
           /\ estoque' = r.est
           /\ ret' = [op |-> "delete_material", args |-> mid, ok |-> r.ret]
    /\ UNCHANGED <<movements, exams, th>>

\* the ledger API: manual movements, consumption, material deletion
Next ==
    \/ \E rec \in MovRecs : AddStockMovement(rec)
    \/ \E items \in ItemLists : ConsumeStockByBatches(items)
    \/ \E mid \in MatIds : DeleteMaterial(mid)

Spec == Init /\ [][Next]_vars

\* the handlers of the pages: manual movements (estoque.py), exam insert
\* (cadastro.py), materials edit and cancellation (exames.py)
NextExams ==
    \/ \E rec \in ExamMovRecs : AddStockMovement(rec)
    \/ \E used \in UsageLists : AddOrUpdateExam(Exam(0, used, FALSE))
    \/ \E exid \in 1..MaxExams, new_items \in UsageLists :
         \E order \in Perms(ItemKeys(new_items) \cup ItemKeys(UsageOf(exid))) :
            ApplyMaterials(exid, new_items, order)
    \/ \E exid \in 1..MaxExams : ConfirmCancelExam(exid)

SpecExams == Init /\ [][NextExams]_vars

\* add_or_update_exam and consume_stock_by_batches called with any record
NextApi ==
    \/ \E id \in 0..MaxExams, used \in UsageLists : AddOrUpdateExam(Exam(id, used, FALSE))
    \/ \E items \in ItemLists : ConsumeStockByBatches(items)
    \/ \E rec \in ExamMovRecs : AddStockMovement(rec)

SpecApi == Init /\ [][NextApi]_vars

\* the stock page: the catalog, the movement form and the snapshot table
MaxMats == 3        \* catalog records the catalog may hold
MaxLog == 4         \* movement records the log may hold on the stock page

FormInput(tipo, qtd, valor, lote_val, validade, obs) ==
    [tipo |-> tipo, qtd |-> qtd, valor |-> valor, lote_val |-> lote_val,
     validade |-> validade, obs |-> obs]

FormInputs ==
    {FormInput("entrada", 1, NoValor, NoLotId, NoValidade, ""),
     FormInput("saida", 1, NoValor, NoLotId, NoValidade, ""),
     FormInput("entrada", MaxQty, NoValor, NoLotId, NoValidade, ""),
     FormInput("ajuste", 1, NoValor, NoLotId, NoValidade, "")}

MaterialRecs == {[estoque_inicial |-> 1]}

AddMaterial(rec) ==
    /\ Len(materials) < MaxMats
    /\ LET returns(r) ==
             /\ materials' = r.materials
             /\ ret' = [op |-> "add_material", id |-> r.id]
       IN  returns(add_material(rec, materials))
    /\ UNCHANGED <<estoque, movements, exams, th>>

SaveMovement(mid, inp) ==
    /\ Len(movements) < MaxLog
    /\ LET returns(r) ==
             /\ movements' = r.rows
             /\ estoque' = r.est
             /\ ret' = [op |-> "save_movement", status |-> r.status]
       IN  returns(save_movement(mid, inp, movements, estoque))
    /\ UNCHANGED <<materials, exams, th>>

ComputeStockSnapshot ==
    /\ ret' = [op |-> "compute_stock_snapshot",
               snap |-> compute_stock_snapshot(materials, exams, movements, estoque)]
    /\ UNCHANGED <<materials, estoque, movements, exams, th>>

\* manual movements of the catalog specification
CatalogMovRecs ==
    {MovRec(2, "entrada", 1, NoLote, NoValidade, NoValor, ""),
     MovRec(2, "saida", MaxQty, NoLote, NoValidade, NoValor, ""),
     MovRec(2, "ajuste", 1, NoLote, NoValidade, NoValor, "+")}

\* the catalog API with the ledger API and the snapshot
NextCatalog ==
    \/ \E rec \in MaterialRecs : AddMaterial(rec)
    \/ \E mid \in MatIds : DeleteMaterial(mid)
    \/ \E rec \in CatalogMovRecs : AddStockMovement(rec)
    \/ AddOrUpdateExam(Exam(0, <<Item(2, NoLotId, 1)>>, FALSE))
    \/ ComputeStockSnapshot

SpecCatalog == Init /\ [][NextCatalog]_vars

\* the movement form on materials added to the seeded catalog; its material
\* dropdown offers the catalog's materials
NextForm ==
    \/ \E rec \in MaterialRecs : AddMaterial(rec)
    \/ \E mid \in CatalogIds(materials) \ MatIds :
         \E inp \in FormInputs : SaveMovement(mid, inp)

SpecForm == Init /\ [][NextForm]_vars

(* ------------------- request threads (Flask workers) ------------------ *)
\* Each thread runs one ledger-mutating call. read_json takes no lock;
\* write_json holds the collection's lock for the write and the rename only,
\* so a call is a sequence of atomic file reads and file writes.
\* exams whose usage names lots: insert (cadastro.py), materials edit and
\* cancellation (exames.py) with lot-keyed items
LotUsageLists ==
    {<<>>,
     <<Item(1, 2, 1)>>,
     <<Item(1, 2, MaxQty)>>,
     <<Item(1, 1, 1)>>}

NextLotExams ==
    \/ \E used \in LotUsageLists : AddOrUpdateExam(Exam(0, used, FALSE))
    \/ \E exid \in 1..MaxExams, new_items \in LotUsageLists :
         \E order \in Perms(ItemKeys(new_items) \cup ItemKeys(UsageOf(exid))) :
            ApplyMaterials(exid, new_items, order)
    \/ \E exid \in 1..MaxExams : ConfirmCancelExam(exid)

SpecLotExams == Init /\ [][NextLotExams]_vars
Threads == {1, 2}

ConcOps ==
    {[kind |-> "mov", rec |-> MovRec(1, "entrada", 1, NoLote, NoValidade, NoValor, "")],
     [kind |-> "mov", rec |-> MovRec(1, "saida", 1, NoLote, NoValidade, NoValor, "")],
     [kind |-> "mov", rec |-> MovRec(2, "entrada", MaxQty, "L1", 2, NoValor, "")],
     [kind |-> "mov", rec |-> MovRec(1, "saida", 0, NoLote, NoValidade, NoValor, "")],
     [kind |-> "consume", items |-> <<Item(1, NoLotId, MaxQty)>>],
     [kind |-> "consume", items |-> <<Item(2, NoLotId, MaxQty)>>],
     [kind |-> "consume", items |-> <<>>]}

InitConc ==
    /\ materials = <<Material(1, 4), Material(2, 1)>>
    /\ estoque = InitEstoque
    /\ movements = <<>>
    /\ exams = <<Exam(1, <<Item(1, NoLotId, 1)>>, FALSE)>>
    /\ ret = [op |-> "init"]
    /\ th \in [Threads -> {[pc |-> "start", op |-> o, rows |-> <<>>, est |-> <<>>] : o \in ConcOps}]

\* add_stock_movement, lines 606-623: read the log, build and validate mov
T_ReadMovements(t) ==
    /\ th[t].pc = "start"
    /\ th[t].op.kind = "mov"
    /\ th' = [th EXCEPT ![t].rows = movements,
                        ![t].pc = IF valid_mov(new_mov(movements, th[t].op.rec))
                                  THEN "write_mov" ELSE "done"]
    /\ UNCHANGED <<materials, estoque, movements, exams, ret>>

\* lines 625-626: append to the list that was read and replace the file
T_WriteMovements(t) ==
    /\ th[t].pc = "write_mov"
    /\ movements' = Append(th[t].rows, new_mov(th[t].rows, th[t].op.rec))
    /\ th' = [th EXCEPT ![t].pc = "read_est"]
    /\ UNCHANGED <<materials, estoque, exams, ret>>

\* line 629 and line 749: _read_estoque(); an empty item list returns at once
T_ReadEstoque(t) ==
    /\ \/ th[t].pc = "read_est"
       \/ th[t].pc = "start" /\ th[t].op.kind = "consume"
    /\ th' = [th EXCEPT ![t].est = estoque,
                        ![t].pc = IF th[t].op.kind = "consume" /\ th[t].op.items = <<>>
                                  THEN "done" ELSE "write_est"]
    /\ UNCHANGED <<materials, estoque, movements, exams, ret>>

\* lines 635-707 and 772-801: mutate the ledger that was read; _write_estoque
\* replaces the file unless the call raised
T_WriteEstoque(t) ==
    /\ th[t].pc = "write_est"
    /\ LET written(r) == estoque' = IF r.ok THEN r.est ELSE estoque
       IN  IF th[t].op.kind = "mov"
           THEN written(apply_movement(th[t].est, new_mov(th[t].rows, th[t].op.rec)))
           ELSE written(consume_items(th[t].est, th[t].op.items))
    /\ th' = [th EXCEPT ![t].pc = "done"]
    /\ UNCHANGED <<materials, movements, exams, ret>>

NextConc ==
    \/ \E t \in Threads : T_ReadMovements(t)
    \/ \E t \in Threads : T_WriteMovements(t)
    \/ \E t \in Threads : T_ReadEstoque(t)
    \/ \E t \in Threads : T_WriteEstoque(t)

SpecConc == InitConc /\ [][NextConc]_vars

(* ------------------- request threads on the exams page ---------------- *)
\* Each thread runs one callback of pages/exames.py on one exam. A callback
\* reads the exam with list_exams(), builds new_exam = dict(ex) and hands the
\* whole record to add_or_update_exam, which replaces the stored record of that
\* id. The fields a row save or an observation save edits (doctor, date, text)
\* are not part of the records here, so their new_exam is the record they read.
ExamOps ==
    {[kind |-> k, exid |-> e] :
       k \in {"_save_row", "_save_observation", "_confirm_cancel_exam"}, e \in 1..MaxExams}
    \cup {[kind |-> "_apply_materials", exid |-> 1, new_items |-> <<Item(1, NoLotId, MaxQty)>>]}

InitExamConc ==
    /\ materials = <<Material(1, 4), Material(2, 1)>>
    /\ estoque = InitEstoque
    /\ movements = <<>>
    /\ exams = <<Exam(1, <<Item(1, NoLotId, 1)>>, FALSE)>>
    /\ ret = [op |-> "init"]
    /\ th \in [Threads -> {[pc |-> "start", op |-> o, ex |-> <<>>] : o \in ExamOps}]

\* ex = next((x for x in list_exams() if x.get("id") == exid), None) and the
\* early returns: exam not found; exam already cancelled (cancel, materials)
T_ReadExam(t) ==
    /\ th[t].pc = "start"
    /\ LET i == ExamIdx(exams, th[t].op.exid)
       IN  th' = [th EXCEPT
                    ![t].ex = IF i = 0 THEN <<>> ELSE <<exams[i]>>,
                    ![t].pc = IF i = 0 THEN "done"
                              ELSE IF exams[i].cancelado
                                      /\ th[t].op.kind \in {"_confirm_cancel_exam", "_apply_materials"}
                                   THEN "done"
                              ELSE "write"]
    /\ UNCHANGED <<materials, estoque, movements, exams, ret>>

\* the rest of the callback: the stock movements of a cancellation or of a
\* materials edit, computed from the record that was read, then
\* add_or_update_exam(new_exam); a movement that raises ends the callback
\* before the exam is written
T_WriteExam(t) ==
    /\ th[t].pc = "write"
    /\ LET ex == th[t].ex[1]
           kind == th[t].op.kind
           new_exam == IF kind = "_confirm_cancel_exam"
                       THEN [ex EXCEPT !.materiais_usados = <<>>, !.cancelado = TRUE]
                       ELSE IF kind = "_apply_materials"
                       THEN [ex EXCEPT !.materiais_usados = th[t].op.new_items]
                       ELSE ex
           written(S) ==
             /\ movements' = S.rows
             /\ estoque' = S.est
             /\ exams' = IF S.ok
                         THEN add_or_update_exam(new_exam, exams, S.est, S.rows).exams
                         ELSE exams
           S0 == [ok |-> TRUE, err |-> "", rows |-> movements, est |-> estoque]
       IN  IF kind = "_confirm_cancel_exam"
           THEN written(cancel_entries(S0, ex.materiais_usados))
           ELSE IF kind = "_apply_materials"
           THEN \E order \in Perms(ItemKeys(th[t].op.new_items) \cup ItemKeys(ex.materiais_usados)) :
                  written(apply_deltas(S0, order, th[t].op.new_items, ex.materiais_usados))
           ELSE written(S0)
    /\ th' = [th EXCEPT ![t].pc = "done"]
    /\ UNCHANGED <<materials, ret>>

NextExamConc ==
    \/ \E t \in Threads : T_ReadExam(t)
    \/ \E t \in Threads : T_WriteExam(t)

SpecExamConc == InitExamConc /\ [][NextExamConc]_vars

(* ------------------- request threads with the file locks -------------- *)
\* Each thread runs one backend call as its sequence of file accesses.
\* read_json (lines 55-62) takes no lock. write_json (lines 64-69) enters
\* "with lock:", writes the temporary file, renames it over the collection
\* and leaves the with-block. th[t].held is the set of locks thread t holds;
\* a lock is free when no thread holds it. th[t].loc holds what the call has
\* read so far.
Files == {"materials", "estoque", "movements", "exams"}

R(f) == [a |-> "r", f |-> f]
W(f) == [a |-> "w", f |-> f]

LockOps ==
    {[kind |-> "mov", rec |-> MovRec(1, "entrada", 1, NoLote, NoValidade, NoValor, "")],
     [kind |-> "mov", rec |-> MovRec(1, "saida", MaxQty + 3, NoLote, NoValidade, NoValor, "")],
     [kind |-> "consume", items |-> <<Item(1, NoLotId, MaxQty)>>],
     [kind |-> "exam", exam |-> Exam(0, <<Item(2, NoLotId, 1)>>, FALSE)],
     [kind |-> "delete", mid |-> 2],
     [kind |-> "snapshot"]}

\* the file accesses of a call, in program order
\* variant: add_or_update_exam stores the exam before it consumes the stock
Accesses_exam_first(o) ==
    CASE o.kind = "mov" -> <<R("movements"), W("movements"), R("estoque"), W("estoque")>>
      [] o.kind = "consume" -> <<R("estoque"), W("estoque")>>
      [] o.kind = "exam" ->
           <<R("exams"), R("materials"), W("exams"), R("estoque"), W("estoque")>>
      [] o.kind = "delete" -> <<R("materials"), W("materials"), R("estoque"), W("estoque")>>
      [] o.kind = "snapshot" -> <<R("materials"), R("exams"), R("movements"), R("estoque")>>
Accesses(o) ==
    CASE o.kind = "mov" -> <<R("movements"), W("movements"), R("estoque"), W("estoque")>>
      [] o.kind = "consume" -> <<R("estoque"), W("estoque")>>
      [] o.kind = "exam" -> <<R("exams"), R("materials"), R("estoque"), W("estoque"), W("exams")>>
      [] o.kind = "delete" -> <<R("materials"), W("materials"), R("estoque"), W("estoque")>>
      [] o.kind = "snapshot" -> <<R("materials"), R("exams"), R("movements"), R("estoque")>>

\* the call raises, or returns, before its write of file f
Stops(o, f, loc) ==
    CASE o.kind = "mov" /\ f = "movements" -> ~valid_mov(new_mov(loc.movements, o.rec))
      [] o.kind = "mov" /\ f = "estoque" ->
           ~apply_movement(loc.estoque, new_mov(loc.movements, o.rec)).ok
      [] o.kind = "consume" -> ~consume_items(loc.estoque, o.items).ok
      [] o.kind = "exam" /\ f = "estoque" ->
           ~consume_items(loc.estoque, estimate_items_cost(o.exam.materiais_usados)).ok
      [] o.kind = "delete" /\ f = "estoque" -> o.mid \notin DOMAIN loc.estoque
      [] OTHER -> FALSE

\* what the call writes to file f
NewContent(o, f, loc) ==
    CASE o.kind = "mov" /\ f = "movements" ->
           Append(loc.movements, new_mov(loc.movements, o.rec))
      [] o.kind = "mov" /\ f = "estoque" ->
           apply_movement(loc.estoque, new_mov(loc.movements, o.rec)).est
      [] o.kind = "consume" -> consume_items(loc.estoque, o.items).est
      [] o.kind = "exam" /\ f = "estoque" ->
           consume_items(loc.estoque, estimate_items_cost(o.exam.materiais_usados)).est
      [] o.kind = "exam" /\ f = "exams" ->
           Append(loc.exams,
                  [o.exam EXCEPT !.materiais_usados = estimate_items_cost(o.exam.materiais_usados),
                                 !.id = _next_id(loc.exams)])
      [] o.kind = "delete" /\ f = "materials" ->
           SelectSeq(loc.materials, LAMBDA m : m.id # o.mid)
      [] o.kind = "delete" /\ f = "estoque" ->
           [m \in DOMAIN loc.estoque \ {o.mid} |-> loc.estoque[m]]

FileOf(f) ==
    CASE f = "materials" -> materials [] f = "estoque" -> estoque
      [] f = "movements" -> movements [] f = "exams" -> exams

LockFree(f) == \A u \in Threads : f \notin th[u].held

\* variant: leaving the with-block keeps the lock
write_json_exit_keep(held, f) == held

\* line 69 done: the with-block of write_json releases the lock
write_json_exit(held, f) == held \ {f}

\* position i + 1 of the program, "done" past its end
Advance(o, i) == IF i + 1 > Len(Accesses(o)) THEN "done" ELSE "run"

InitLocks ==
    /\ materials = <<Material(1, 4), Material(2, 1)>>
    /\ estoque = InitEstoque
    /\ movements = <<>>
    /\ exams = <<Exam(1, <<Item(1, NoLotId, 1)>>, FALSE)>>
    /\ ret = [op |-> "init"]
    /\ th \in [Threads -> {[pc |-> "run", op |-> o, i |-> 1, held |-> {},
                            loc |-> [materials |-> <<>>, estoque |-> <<>>,
                                     movements |-> <<>>, exams |-> <<>>]] : o \in LockOps}]

\* read_json: the file as it is now
T_Read(t) ==
    /\ th[t].pc = "run"
    /\ Accesses(th[t].op)[th[t].i].a = "r"
    /\ th' = [th EXCEPT ![t].loc = [@ EXCEPT ![Accesses(th[t].op)[th[t].i].f] =
                                               FileOf(Accesses(th[t].op)[th[t].i].f)],
                        ![t].i = @ + 1,
                        ![t].pc = Advance(th[t].op, th[t].i)]
    /\ UNCHANGED <<materials, estoque, movements, exams, ret>>

\* the call raises or returns before its next write; it holds no lock then
T_Stop(t) ==
    /\ th[t].pc = "run"
    /\ Accesses(th[t].op)[th[t].i].a = "w"
    /\ Stops(th[t].op, Accesses(th[t].op)[th[t].i].f, th[t].loc)
    /\ th' = [th EXCEPT ![t].pc = "done"]
    /\ UNCHANGED <<materials, estoque, movements, exams, ret>>

\* write_json line 66: "with lock:" waits until the lock is free
T_Acquire(t) ==
    /\ th[t].pc = "run"
    /\ Accesses(th[t].op)[th[t].i].a = "w"
    /\ ~Stops(th[t].op, Accesses(th[t].op)[th[t].i].f, th[t].loc)
    /\ LockFree(Accesses(th[t].op)[th[t].i].f)
    /\ th' = [th EXCEPT ![t].held = @ \cup {Accesses(th[t].op)[th[t].i].f},
                        ![t].pc = "locked"]
    /\ UNCHANGED <<materials, estoque, movements, exams, ret>>

\* write_json lines 67-69: dump to the temporary file, rename, release
T_WriteJson(t) ==
    /\ th[t].pc = "locked"
    /\ LET written(f, c) ==
             /\ materials' = IF f = "materials" THEN c ELSE materials
             /\ estoque' = IF f = "estoque" THEN c ELSE estoque
             /\ movements' = IF f = "movements" THEN c ELSE movements
             /\ exams' = IF f = "exams" THEN c ELSE exams
             /\ th' = [th EXCEPT ![t].held = write_json_exit(@, f),
                                 ![t].i = @ + 1,
                                 ![t].pc = Advance(th[t].op, th[t].i)]
           at(f) == written(f, NewContent(th[t].op, f, th[t].loc))
       IN  at(Accesses(th[t].op)[th[t].i].f)
    /\ UNCHANGED ret

NextLocks ==
    \/ \E t \in Threads : T_Read(t)
    \/ \E t \in Threads : T_Stop(t)
    \/ \E t \in Threads : T_Acquire(t)
    \/ \E t \in Threads : T_WriteJson(t)

SpecLocks == InitLocks /\ [][NextLocks]_vars

(* ============================== claims ================================ *)
RECURSIVE UsageQty(_, _)
UsageQty(items, m) ==
    IF items = <<>> THEN 0
    ELSE (IF Head(items).material_id = m THEN Head(items).quantidade ELSE 0)
         + UsageQty(Tail(items), m)

LastMov(rows) == rows[Len(rows)]

\* C1: in every reachable state every lot of every material has a balance >= 0.
C1_BalancesNonNegative ==
    \A m \in DOMAIN estoque : \A i \in DOMAIN estoque[m] : estoque[m][i].saldo >= 0

\* a materials edit has just raised and some lot stands drained to 0
C1_Witness ==
    /\ ret.op = "_apply_materials"
    /\ ret.status = "Raised"
    /\ \E m \in DOMAIN estoque : \E i \in DOMAIN estoque[m] : estoque[m][i].saldo = 0

\* C2: a consume_stock_by_batches call in which some item fails leaves the
\* persisted ledger exactly as it was, for every material and lot.
C2_ConsumeAllOrNothing ==
    [][(ret'.op = "consume_stock_by_batches" /\ ~ret'.ok) => estoque' = estoque]_vars

\* a two-item request has just failed on its second item after the first item
\* was debited in memory
C2_Witness ==
    /\ ret.op = "consume_stock_by_batches"
    /\ ~ret.ok
    /\ Len(ret.args) = 2
    /\ consume_item(estoque, ret.args[1]).ok
    /\ consume_item(estoque, ret.args[1]).est # estoque

\* the consumption order of the claim, stated on the rows themselves: dated
\* lots by ascending expiry, lots without expiry last, ties in stored order
Earlier(rows, i, j) ==
    \/ rows[i].validade # NoValidade /\ rows[j].validade = NoValidade
    \/ rows[i].validade # NoValidade /\ rows[j].validade # NoValidade
       /\ rows[i].validade < rows[j].validade
    \/ rows[i].validade = rows[j].validade /\ i < j

FifoDrained(e, e2, m, q) ==
    LET r == Rows(e, m)
        r2 == Rows(e2, m)
        P == {i \in DOMAIN r : r[i].saldo > 0}
    IN  /\ DOMAIN e2 = DOMAIN e
        /\ \A m2 \in DOMAIN e \ {m} : e2[m2] = e[m2]
        /\ DOMAIN r2 = DOMAIN r
        /\ \A i \in DOMAIN r : /\ r2[i] = [r[i] EXCEPT !.saldo = r2[i].saldo]
                               /\ r2[i].saldo >= 0
                               /\ r2[i].saldo <= r[i].saldo
        /\ \A i \in DOMAIN r \ P : r2[i].saldo = r[i].saldo
        /\ _sum_batches(e2, m) = _sum_batches(e, m) - q
        /\ \A i, j \in P : (Earlier(r, i, j) /\ r2[i].saldo > 0) => r2[j].saldo = r[j].saldo
        /\ \A i, j \in P : (Earlier(r, i, j) /\ r2[j].saldo # r[j].saldo) => r2[i].saldo = 0

UnlottedExitStep ==
    /\ ret'.op = "add_stock_movement"
    /\ Len(movements') = Len(movements) + 1
    /\ LastMov(movements').tipo = "saida"
    /\ LastMov(movements').lote = NoLote
    /\ LastMov(movements').validade = NoValidade

UnlottedConsumeStep ==
    /\ ret'.op = "consume_stock_by_batches"
    /\ Len(ret'.args) = 1
    /\ ret'.args[1].lote_id = NoLotId

\* C3: an unlotted debit of q (an unlotted exit, or a consumption item without
\* lot id) on a material whose lots total at least q succeeds and drains the
\* lots in ascending expiry order, lots without expiry last, ties in stored
\* order: a lot keeps a positive balance only if every later lot is untouched,
\* a lot is touched only if every earlier lot is at 0, and the balances drop by
\* q in total.
C3_FifoByExpiry ==
    [][/\ (UnlottedExitStep
           /\ _sum_batches(estoque, LastMov(movements').material_id)
                >= LastMov(movements').quantidade)
          => /\ ret'.ok
             /\ FifoDrained(estoque, estoque', LastMov(movements').material_id,
                            LastMov(movements').quantidade)
       /\ (UnlottedConsumeStep
           /\ _sum_batches(estoque, ret'.args[1].material_id) >= ret'.args[1].quantidade)
          => /\ ret'.ok
             /\ FifoDrained(estoque, estoque', ret'.args[1].material_id,
                            ret'.args[1].quantidade)]_vars

\* an unlotted exit has drained the soonest lot of material 1 (file position 3)
\* while its lot without expiry (file position 1) still holds its balance
C3_Witness ==
    /\ ret.op = "add_stock_movement"
    /\ ret.ok
    /\ movements # <<>>
    /\ LastMov(movements).tipo = "saida"
    /\ LastMov(movements).lote = NoLote /\ LastMov(movements).validade = NoValidade
    /\ 1 \in DOMAIN estoque
    /\ Len(estoque[1]) >= 3
    /\ estoque[1][3].saldo = 0
    /\ estoque[1][1].saldo > 0

\* C4 (as claimed): once both threads have finished, the ledger is the one that
\* running the two calls one after the other, in one of the two orders, gives.
EstAfter(o, est) ==
    IF o.kind = "mov" THEN add_stock_movement(o.rec, <<>>, est).est
    ELSE consume_stock_by_batches(o.items, est).est

C4_NoLostUpdate ==
    (th # <<>> /\ \A t \in Threads : th[t].pc = "done") =>
        estoque \in {EstAfter(th[2].op, EstAfter(th[1].op, InitEstoque)),
                     EstAfter(th[1].op, EstAfter(th[2].op, InitEstoque))}

\* C5 (as claimed): an add_stock_movement call that fails at the ledger step
\* changes neither the movement log nor the ledger.
C5_FailedMovementLeavesNoRecord ==
    [][(ret'.op = "add_stock_movement" /\ ~ret'.ok
        /\ ret'.err \in {"LotNotFound", "InsufficientBalance"})
       => (movements' = movements /\ estoque' = estoque)]_vars

\* C6: cancelling a non-cancelled exam completes, raises the balance sum of
\* every material by the exam's usage of it, marks the exam cancelled and
\* clears its usage; cancelling an exam that is already cancelled changes
\* neither the ledger nor the movement log nor the exams.
C6_CancelRestoresOnce ==
    [][(ret'.op = "_confirm_cancel_exam" /\ ExamIdx(exams, ret'.args) # 0) =>
         IF exams[ExamIdx(exams, ret'.args)].cancelado
         THEN estoque' = estoque /\ movements' = movements /\ exams' = exams
         ELSE /\ ret'.status = "Done"
              /\ \A m \in MatIds :
                   _sum_batches(estoque', m)
                     = _sum_batches(estoque, m)
                       + UsageQty(exams[ExamIdx(exams, ret'.args)].materiais_usados, m)
              /\ exams' = [exams EXCEPT ![ExamIdx(exams, ret'.args)].cancelado = TRUE,
                                        ![ExamIdx(exams, ret'.args)].materiais_usados = <<>>]]_vars

\* a second cancellation request has just been refused and the log holds the
\* entry of the first one
C6_Witness ==
    /\ ret.op = "_confirm_cancel_exam"
    /\ ret.status = "Cancelled"
    /\ \E k \in DOMAIN movements :
          movements[k].tipo = "entrada" /\ movements[k].obs = "Cancelamento exame"

\* a materials edit of a non-cancelled exam from one unlotted item to one
\* unlotted item of the same material with a smaller quantity
ReducingEditStep ==
    /\ ret'.op = "_apply_materials"
    /\ ExamIdx(exams, ret'.args) # 0
    /\ ~exams[ExamIdx(exams, ret'.args)].cancelado
    /\ Len(UsageOf(ret'.args)) = 1
    /\ Len(ret'.new_items) = 1
    /\ UsageOf(ret'.args)[1].lote_id = NoLotId
    /\ ret'.new_items[1].lote_id = NoLotId
    /\ ret'.new_items[1].material_id = UsageOf(ret'.args)[1].material_id
    /\ ret'.new_items[1].quantidade < UsageOf(ret'.args)[1].quantidade

\* C7: an insert debits every material by the exam's usage of it; a materials
\* edit of an exam from unlotted {M, q_old} to unlotted {M, q_new}, q_new < q_old,
\* completes, appends exactly one entry of q_old - q_new for M, raises M's
\* balance sum by q_old - q_new, leaves the other materials' sums alone and
\* stores the usage {M, q_new}.
C7_ReducingEditCreditsDifference ==
    [][/\ (ret'.op = "add_or_update_exam" /\ ret'.ok /\ ret'.args = 0) =>
            \A m \in MatIds :
               _sum_batches(estoque', m)
                 = _sum_batches(estoque, m) - UsageQty(exams'[Len(exams')].materiais_usados, m)
       /\ ReducingEditStep =>
            /\ ret'.status = "Done"
            /\ Len(movements') = Len(movements) + 1
            /\ LastMov(movements').tipo = "entrada"
            /\ LastMov(movements').material_id = ret'.new_items[1].material_id
            /\ LastMov(movements').quantidade
                 = UsageOf(ret'.args)[1].quantidade - ret'.new_items[1].quantidade
            /\ \A m \in MatIds :
                 _sum_batches(estoque', m)
                   = _sum_batches(estoque, m) + UsageQty(UsageOf(ret'.args), m)
                     - UsageQty(ret'.new_items, m)
            /\ exams'[ExamIdx(exams, ret'.args)].materiais_usados = ret'.new_items]_vars

\* exam 2 was inserted and its usage has just been reduced by a materials edit
C7_Witness ==
    /\ ret.op = "_apply_materials"
    /\ ret.args = 2
    /\ ret.status = "Done"
    /\ ret.new_items = <<Item(1, NoLotId, 1)>>
    /\ movements # <<>>
    /\ LastMov(movements).tipo = "entrada"
    /\ LastMov(movements).obs = "Estorno materiais exame"

\* C8 (as claimed): a materials edit over unlotted keys in which some material's
\* lots cannot cover its positive delta still completes with the usage updated.
C8_EditNeverFailsForStock ==
    [][(/\ ret'.op = "_apply_materials"
        /\ ExamIdx(exams, ret'.args) # 0
        /\ ~exams[ExamIdx(exams, ret'.args)].cancelado
        /\ \E k \in ItemKeys(ret'.new_items) :
              /\ k[2] = NoLotId
              /\ Delta(ret'.new_items, UsageOf(ret'.args), k) > _sum_batches(estoque, k[1]))
       => /\ ret'.status = "Done"
          /\ exams'[ExamIdx(exams, ret'.args)].materiais_usados = ret'.new_items]_vars

\* C9 (as claimed): add_or_update_exam with an id set leaves the ledger alone
\* and allocates no exam id.
C9_UpdateNeverTouchesLedger ==
    [][(ret'.op = "add_or_update_exam" /\ ret'.args # 0)
       => /\ estoque' = estoque
          /\ Len(exams') = Len(exams)
          /\ (ret'.ok => ret'.id = ret'.args)]_vars

\* C10: consume_stock_by_batches and the insert path of add_or_update_exam leave
\* the movement log as it was, whether they succeed or fail.
C10_ExamConsumptionNotLogged ==
    [][(\/ ret'.op = "consume_stock_by_batches"
        \/ ret'.op = "add_or_update_exam" /\ ExamIdx(exams, ret'.args) = 0)
       => movements' = movements]_vars

\* an insert has just debited the ledger for a non-empty usage list while the
\* log already held a manual movement
C10_Witness ==
    /\ ret.op = "add_or_update_exam"
    /\ ret.ok
    /\ ret.id # ret.args
    /\ exams[Len(exams)].id = ret.id
    /\ exams[Len(exams)].materiais_usados # <<>>
    /\ movements # <<>>
\* C11 (as claimed): an applied adjustment is a credit when a unit cost is
\* supplied or its note has "+" without "-", a debit when the note has "-"
\* without "+", and a credit in every other case; a credit raises the balance
\* sum of the material by the quantity and a debit lowers it by the quantity.
ClaimedCredit(mov) ==
    IF mov.valor_unitario # NoValor \/ (HasPlus(mov.obs) /\ ~HasMinus(mov.obs)) THEN TRUE
    ELSE IF HasMinus(mov.obs) /\ ~HasPlus(mov.obs) THEN FALSE
    ELSE TRUE

C11_AdjustmentCreditByDefault ==
    [][(/\ ret'.op = "save_movement" /\ ret'.status = "ok"
        /\ LastMov(movements').tipo = "ajuste")
       => _sum_batches(estoque', LastMov(movements').material_id)
            = _sum_batches(estoque, LastMov(movements').material_id)
              + (IF ClaimedCredit(LastMov(movements')) THEN LastMov(movements').quantidade
                 ELSE 0 - LastMov(movements').quantidade)]_vars

\* C15: an add_stock_movement call whose kind is not entrada, saida or ajuste,
\* or whose quantity is <= 0, fails with the validation error and changes none
\* of the catalog, the ledger, the movement log and the exams.
C15_InvalidMovementRejected ==
    [][(ret'.op = "add_stock_movement"
        /\ (ret'.args.tipo \notin Tipos \/ ret'.args.quantidade <= 0))
       => (~ret'.ok /\ ret'.err = "ValidationError"
           /\ UNCHANGED <<materials, estoque, movements, exams>>)]_vars

\* a rejected call with a valid kind and quantity 0, made after a record was logged
C15_Witness ==
    /\ ret.op = "add_stock_movement"
    /\ ret.args.tipo \in Tipos /\ ret.args.quantidade <= 0
    /\ ~ret.ok /\ movements # <<>>

\* C16 (as claimed): an add_stock_movement call for a material id that is not
\* in the catalog fails and leaves the ledger as it was, so that every ledger
\* key is the id of a catalog material.
C16_UnknownMaterialRejected ==
    [][(ret'.op = "add_stock_movement"
        /\ ret'.args.material_id \notin CatalogIds(materials))
       => (~ret'.ok /\ estoque' = estoque
           /\ DOMAIN estoque' \subseteq CatalogIds(materials'))]_vars

\* C17: delete_material(m) leaves neither a catalog record nor a ledger key of
\* m, keeps every other catalog record and every other material's lots as they
\* were, changes neither the movement log nor the exams, and returns true
\* exactly when m was in the catalog.
C17_DeleteMaterialCascades ==
    [][ret'.op = "delete_material"
       => /\ ret'.args \notin CatalogIds(materials')
          /\ materials' = SelectSeq(materials, LAMBDA r : r.id # ret'.args)
          /\ DOMAIN estoque' = DOMAIN estoque \ {ret'.args}
          /\ \A k \in DOMAIN estoque' : estoque'[k] = estoque[k]
          /\ movements' = movements /\ exams' = exams
          /\ ret'.ok = (ret'.args \in CatalogIds(materials))]_vars

\* a material that was in the catalog and had lots has just been deleted,
\* while another material still has lots and the log holds a record
C17_Witness ==
    /\ ret.op = "delete_material" /\ ret.ok
    /\ ret.args \notin DOMAIN estoque
    /\ DOMAIN estoque # {} /\ movements # <<>>

\* C20 (as claimed): a lot id, once given to a lot, is never given to another
\* lot: every lot a step creates has an id above the ids of the initial ledger,
\* which were all given out before the first step.
C20_LotIdsNeverReused ==
    [][\A m \in DOMAIN estoque' : \A i \in DOMAIN estoque'[m] :
         (m \notin DOMAIN estoque
          \/ \A j \in DOMAIN estoque[m] : estoque[m][j].id # estoque'[m][i].id)
         => estoque'[m][i].id > _all_batch_max_id(InitEstoque)]_vars

\* C19 (as claimed): under any interleaving of calls the movement log only
\* grows at its end, every record that was persisted stays as it was, and the
\* ids of the log increase strictly along it.
C19_LogAppendOnly ==
    [][/\ Len(movements') >= Len(movements)
       /\ \A i \in DOMAIN movements : movements'[i] = movements[i]
       /\ \A i, j \in DOMAIN movements' :
            i < j => movements'[i].id < movements'[j].id]_vars

\* the indices of the lots of material mid that have the pair (c, e)
PairHits(est, mid, c, e) ==
    {i \in DOMAIN Rows(est, mid) : Rows(est, mid)[i].lote = c /\ Rows(est, mid)[i].validade = e}

\* an entry mov took the ledger from est to est2: one lot has the pair, its
\* balance is the balance before plus the quantity, no other lot changed
EntryCredited(est, est2, mov) ==
    LET m == mov.material_id
        old == PairHits(est, m, mov.lote, mov.validade)
        new == PairHits(est2, m, mov.lote, mov.validade)
        before == IF old = {} THEN 0 ELSE Rows(est, m)[SetMin(old)].saldo
    IN  /\ Cardinality(new) = 1
        /\ \A i \in new : Rows(est2, m)[i].saldo = before + mov.quantidade
        /\ \A k \in DOMAIN est : k \in DOMAIN est2 /\
             \A i \in DOMAIN est[k] : (k # m \/ i \notin old) => est2[k][i] = est[k][i]
        /\ \A k \in DOMAIN est2 : \A i \in DOMAIN est2[k] :
             (k \in DOMAIN est /\ i \in DOMAIN est[k]) \/ (k = m /\ i \in new)

\* list_material_batches shows a lot of mov's material with the code c, the
\* expiry e and the balance of the lot that has mov's pair
EntryListed(est2, mov, c, e) ==
    \E k \in DOMAIN list_material_batches(est2, mov.material_id) :
      /\ list_material_batches(est2, mov.material_id)[k].lote = c
      /\ list_material_batches(est2, mov.material_id)[k].validade = e
      /\ \A i \in PairHits(est2, mov.material_id, mov.lote, mov.validade) :
           list_material_batches(est2, mov.material_id)[k].saldo
             = Rows(est2, mov.material_id)[i].saldo

\* C14 (as claimed): after a successful entry with lot code c and expiry e the
\* material has exactly one lot with the pair (c, e), created with the entry's
\* quantity or credited with it, no other lot has changed, and
\* list_material_batches shows a lot with lote = c, validade = e and that balance.
C14_EntryRoundTrip ==
    [][(ret'.op = "add_stock_movement" /\ ret'.ok /\ ret'.args.tipo = "entrada")
       => /\ EntryCredited(estoque, estoque', ret'.args)
          /\ EntryListed(estoque', ret'.args, ret'.args.lote, ret'.args.validade)]_vars

\* quantity the log holds for material m under kind t, and quantity the exams use
LogQty(rows, m, t) ==
    SeqSum([k \in DOMAIN rows |->
              IF rows[k].material_id = m /\ rows[k].tipo = t THEN rows[k].quantidade ELSE 0])

ExamQty(exs, m) == SeqSum([k \in DOMAIN exs |-> UsageQty(exs[k].materiais_usados, m)])

LegacyBalance(mat) ==
    mat.estoque_inicial + LogQty(movements, mat.id, "entrada")
    - LogQty(movements, mat.id, "saida") + LogQty(movements, mat.id, "ajuste")
    - ExamQty(exams, mat.id)

HasLots(m) == m \in DOMAIN estoque /\ estoque[m] # <<>>

\* C12: compute_stock_snapshot has one row per catalog material; its
\* estoque_atual is the sum of the material's lot balances when the ledger holds
\* at least one lot of it, whatever their balances, the log and the exams; with
\* no lot it is opening + entries - exits + adjustments - exam consumption.
C12_SnapshotBalance ==
    ret.op = "compute_stock_snapshot" =>
      /\ DOMAIN ret.snap = DOMAIN materials
      /\ \A i \in DOMAIN materials :
           /\ ret.snap[i].id = materials[i].id
           /\ ret.snap[i].estoque_atual =
                IF HasLots(materials[i].id) THEN _sum_batches(estoque, materials[i].id)
                ELSE LegacyBalance(materials[i])

\* a snapshot of a catalog with a material whose lots do not sum to its legacy
\* balance, and a material without lots that has entries, exits and exam usage
C12_Witness ==
    /\ ret.op = "compute_stock_snapshot"
    /\ \E i \in DOMAIN materials :
         /\ HasLots(materials[i].id)
         /\ _sum_batches(estoque, materials[i].id) # LegacyBalance(materials[i])
    /\ \E j \in DOMAIN materials :
         /\ ~HasLots(materials[j].id)
         /\ ret.snap[j].entradas > 0 /\ ret.snap[j].saidas > 0
         /\ ret.snap[j].consumo_exames > 0

\* the log records of material m, and how many of the first k are of kind t
RecsOf(m) == SelectSeq(movements, LAMBDA r : r.material_id = m)

CountKind(s, k, t) == Cardinality({i \in 1..k : s[i].tipo = t})

\* every record of s is an entry or an exit of quantity q with no lot code and
\* no expiry
UnlottedOf(s, q) ==
    \A i \in DOMAIN s :
      /\ s[i].tipo \in {"entrada", "saida"} /\ s[i].quantidade = q
      /\ s[i].lote = NoLote /\ s[i].validade = NoValidade

\* C13 (as claimed): for a material added to the catalog whose log holds N
\* unlotted entries and M unlotted exits of one quantity q, N >= M, in whatever
\* order they were issued, the balance sum is (N - M) * q.
C13_AnyOrder ==
    \A m \in CatalogIds(materials) \ MatIds : \A q \in 1..MaxQty :
      (/\ UnlottedOf(RecsOf(m), q)
       /\ CountKind(RecsOf(m), Len(RecsOf(m)), "entrada")
            >= CountKind(RecsOf(m), Len(RecsOf(m)), "saida"))
      => _sum_batches(estoque, m)
           = (CountKind(RecsOf(m), Len(RecsOf(m)), "entrada")
              - CountKind(RecsOf(m), Len(RecsOf(m)), "saida")) * q

\* C13 (amended): the same, for the orders in which every exit is issued when
\* more entries than exits have been issued before it.
C13_NoExitAhead ==
    \A m \in CatalogIds(materials) \ MatIds : \A q \in 1..MaxQty :
      (/\ UnlottedOf(RecsOf(m), q)
       /\ \A k \in DOMAIN RecsOf(m) :
            CountKind(RecsOf(m), k, "entrada") >= CountKind(RecsOf(m), k, "saida"))
      => _sum_batches(estoque, m)
           = (CountKind(RecsOf(m), Len(RecsOf(m)), "entrada")
              - CountKind(RecsOf(m), Len(RecsOf(m)), "saida")) * q

\* two entries and an exit of one quantity were issued for an added material,
\* no exit ahead of its entry, and a balance is left
C13_Witness ==
    \E m \in CatalogIds(materials) \ MatIds : \E q \in 1..MaxQty :
      /\ UnlottedOf(RecsOf(m), q)
      /\ \A k \in DOMAIN RecsOf(m) :
           CountKind(RecsOf(m), k, "entrada") >= CountKind(RecsOf(m), k, "saida")
      /\ CountKind(RecsOf(m), Len(RecsOf(m)), "entrada") >= 2
      /\ CountKind(RecsOf(m), Len(RecsOf(m)), "saida") >= 1
      /\ _sum_batches(estoque, m) > 0

\* C18 (as claimed): an exam that is cancelled with an empty usage list stays
\* cancelled with an empty usage list through every later write of a row save,
\* an observation save, a materials edit or a cancellation, also when the
\* writing request read the exam before it was cancelled.
C18_CancellationPermanent ==
    [][\A i \in DOMAIN exams :
         (exams[i].cancelado /\ exams[i].materiais_usados = <<>>)
         => \E j \in DOMAIN exams' :
              /\ exams'[j].id = exams[i].id
              /\ exams'[j].cancelado /\ exams'[j].materiais_usados = <<>>]_vars

\* the lot ids of material m in consumption order and in listing order
FifoIds(est, m) ==
    [k \in DOMAIN _fifo_batches(est, m) |-> Rows(est, m)[_fifo_batches(est, m)[k]].id]

ListedIds(est, m) ==
    [k \in DOMAIN list_material_batches(est, m) |-> list_material_batches(est, m)[k].id]

\* C21 (as claimed): list_material_batches returns the lots of the material
\* with a balance > 0, in the order in which an unlotted debit drains them:
\* ascending expiry, lots without expiry last.
C21_ListingInFifoOrder ==
    \A m \in DOMAIN estoque : ListedIds(estoque, m) = FifoIds(estoque, m)

\* thread t is not blocked: it has a step to take
CanStep(t) ==
    \/ th[t].pc = "locked"
    \/ /\ th[t].pc = "run"
       /\ \/ Accesses(th[t].op)[th[t].i].a = "r"
          \/ Stops(th[t].op, Accesses(th[t].op)[th[t].i].f, th[t].loc)
          \/ LockFree(Accesses(th[t].op)[th[t].i].f)

\* the steps the threads have left: two per file access, one when inside write_json
StepsLeft(t) ==
    IF th[t].pc = "done" THEN 0
    ELSE 2 * (Len(Accesses(th[t].op)) - th[t].i + 1) - (IF th[t].pc = "locked" THEN 1 ELSE 0)

WorkLeft == SeqSum([t \in Threads |-> StepsLeft(t)])

\* C22: in every interleaving of add_stock_movement, consume_stock_by_batches,
\* the insert of add_or_update_exam, delete_material and
\* compute_stock_snapshot no thread ever holds more than one collection lock
\* or keeps one after its call, a thread that has not finished is never
\* blocked together with all the others, and every step reduces the steps left,
\* so that every call terminates.
C22_NoDeadlock ==
    /\ [](\A t \in Threads : Cardinality(th[t].held) <= 1)
    /\ [](\A t \in Threads : th[t].pc = "done" => th[t].held = {})
    /\ []((\E t \in Threads : th[t].pc # "done") => \E u \in Threads : CanStep(u))
    /\ [][WorkLeft' < WorkLeft]_vars

\* one thread is inside write_json on the ledger while the other waits for
\* the ledger's lock
C22_Witness ==
    \E t, u \in Threads :
      /\ th[t].pc = "locked" /\ "estoque" \in th[t].held
      /\ th[u].pc = "run" /\ Accesses(th[u].op)[th[u].i] = W("estoque")
      /\ ~Stops(th[u].op, "estoque", th[u].loc)

\* the rows of material m whose lot id is lid
RowsWithId(est, m, lid) ==
    IF m \in DOMAIN est THEN {i \in DOMAIN est[m] : est[m][i].id = lid} ELSE {}

\* a call with one positive item that names a lot
OneLotItem(r) ==
    /\ r.op = "consume_stock_by_batches"
    /\ Len(r.args) = 1
    /\ r.args[1].lote_id # NoLotId
    /\ r.args[1].quantidade > 0

\* what C23 requires of a call with item it on ledger est, result r, ledger est2
LotDebit(est, it, r, est2) ==
    LET outcome(hits) ==
          IF hits = {}
          THEN ~r.ok /\ r.err = "LotNotFound" /\ est2 = est
          ELSE \A i \in hits :
                 IF est[it.material_id][i].saldo < it.quantidade
                 THEN ~r.ok /\ r.err = "InsufficientBalance" /\ est2 = est
                 ELSE /\ r.ok
                      /\ est2 = [est EXCEPT ![it.material_id][i].saldo = @ - it.quantidade]
    IN  outcome(RowsWithId(est, it.material_id, it.lote_id))

\* C23: consume_stock_by_batches with an item that names a lot id debits
\* exactly the quantity from the lot with that id among the material's own
\* lots and changes no other lot; it fails with lot-not-found when the
\* material has no lot with that id, even if another material has one, and
\* with insufficient-balance when that lot alone holds less than the
\* quantity, even if the material's other lots could cover it; a failed call
\* leaves the ledger as it was.
C23_LotDebitExact ==
    [][OneLotItem(ret') => LotDebit(estoque, ret'.args[1], ret', estoque')]_vars

\* a debit of a named lot went through while the material has other lots
C23_Witness ==
    /\ OneLotItem(ret)
    /\ ret.ok
    /\ ret.args[1].material_id \in DOMAIN estoque
    /\ Len(estoque[ret.args[1].material_id]) > 1

\* the two refusals of C23 both happen: the id belongs to another material,
\* and the named lot is short while the material's total would cover
C23_RefusalsHappen ==
    /\ OneLotItem(ret)
    /\ ~ret.ok
    /\ \/ /\ ret.err = "LotNotFound"
          /\ \E m \in DOMAIN estoque : RowsWithId(estoque, m, ret.args[1].lote_id) # {}
       \/ /\ ret.err = "InsufficientBalance"
          /\ ret.args[1].material_id \in DOMAIN estoque
          /\ _sum_batches(estoque, ret.args[1].material_id) >= ret.args[1].quantidade

\* the ledger est2 is est with q more on the lot lid of material m and
\* nothing else changed or created
LotCredit(est, m, lid, q, est2) ==
    /\ RowsWithId(est, m, lid) # {}
    /\ \A i \in RowsWithId(est, m, lid) : est2 = [est EXCEPT ![m][i].saldo = @ + q]

\* a usage list with one positive item that names an existing lot
LotKeyed(used) ==
    /\ Len(used) = 1
    /\ used[1].lote_id # NoLotId
    /\ used[1].quantidade > 0
    /\ RowsWithId(estoque, used[1].material_id, used[1].lote_id) # {}

\* C24: when a usage item keyed by a lot id is reduced by a materials edit or
\* reversed by a cancellation, the synthetic entry credits that same lot: its
\* balance rises by the reduction and no other lot is created or changed,
\* also when the lot's balance is 0 or the lot has no code or no expiry.
C24_ReversalCreditsSameLot ==
    [][/\ (ret'.op = "_confirm_cancel_exam" /\ ret'.status = "Done"
           /\ LotKeyed(UsageOf(ret'.args)))
          => LotCredit(estoque, UsageOf(ret'.args)[1].material_id,
                       UsageOf(ret'.args)[1].lote_id,
                       UsageOf(ret'.args)[1].quantidade, estoque')
       /\ (ret'.op = "_apply_materials" /\ ret'.status = "Done"
           /\ LotKeyed(UsageOf(ret'.args))
           /\ ItemKeys(ret'.new_items) \subseteq ItemKeys(UsageOf(ret'.args))
           /\ Delta(ret'.new_items, UsageOf(ret'.args),
                    <<UsageOf(ret'.args)[1].material_id, UsageOf(ret'.args)[1].lote_id>>) < 0)
          => LotCredit(estoque, UsageOf(ret'.args)[1].material_id,
                       UsageOf(ret'.args)[1].lote_id,
                       -Delta(ret'.new_items, UsageOf(ret'.args),
                              <<UsageOf(ret'.args)[1].material_id,
                                UsageOf(ret'.args)[1].lote_id>>),
                       estoque')]_vars

\* thread t has completed its write of file f
Written(t, f) == \E j \in 1..(th[t].i - 1) : Accesses(th[t].op)[j] = W(f)

\* thread t runs an exam insert and is about to take the step at its write of f
ExamAt(t, f) ==
    /\ th[t].op.kind = "exam"
    /\ th[t].pc # "done"
    /\ Accesses(th[t].op)[th[t].i] = W(f)

\* C25: on an exam insert the ledger is debited before the exam record is
\* persisted, in a locked write of its own: the step that appends the exam
\* is taken by a call whose ledger write is complete, holds only the exams
\* lock and leaves the ledger alone; the step that debits the ledger leaves
\* the exams alone; and a call whose consumption fails stops there, with the
\* ledger and the exams unchanged and no exam record added afterwards.
C25_DebitBeforeExamRecord ==
    /\ [][exams' # exams =>
            \E t \in Threads :
               /\ ExamAt(t, "exams") /\ th[t].pc = "locked" /\ th'[t].pc = "done"
               /\ Written(t, "estoque")
               /\ th[t].held = {"exams"}
               /\ estoque' = estoque
               /\ exams' = Append(exams, exams'[Len(exams')])]_vars
    /\ [][\A t \in Threads :
            ExamAt(t, "estoque") /\ th'[t] # th[t] =>
               /\ exams' = exams
               /\ ~Written(t, "exams")
               /\ IF Stops(th[t].op, "estoque", th[t].loc)
                  THEN estoque' = estoque /\ th'[t].pc = "done"
                  ELSE \/ th[t].pc = "run" /\ th'[t].pc = "locked" /\ estoque' = estoque
                       \/ /\ th[t].pc = "locked" /\ th[t].held = {"estoque"}
                          /\ estoque' = NewContent(th[t].op, "estoque", th[t].loc)]_vars
    /\ [][\A t \in Threads : th[t].pc = "done" => th'[t] = th[t]]_vars

\* the intermediate state: the insert has debited the ledger on file and its
\* record is not yet in the collection
C25_Witness ==
    \E t \in Threads :
       /\ ExamAt(t, "exams")
       /\ Written(t, "estoque")
       /\ estoque = NewContent(th[t].op, "estoque", th[t].loc)
       /\ estoque # th[t].loc.estoque
       /\ exams = th[t].loc.exams

\* an insert whose consumption failed has stopped without a record
C25_FailedInsert ==
    \E t \in Threads :
       /\ th[t].op.kind = "exam"
       /\ th[t].pc = "done"
       /\ ~Written(t, "estoque")
       /\ Len(exams) = 1

\* the operations C26 ranges over, when they have completed
CompletedOp(r) ==
    \/ r.op = "add_stock_movement" /\ r.ok /\ r.args.tipo # "ajuste"
    \/ r.op = "add_or_update_exam" /\ r.ok
    \/ r.op = "_apply_materials" /\ r.status = "Done"
    \/ r.op = "_confirm_cancel_exam" /\ r.status = "Done"

\* sumBalances(m) minus what the log and the exams account for
Unaccounted(est, rows, exs, m) ==
    _sum_batches(est, m) - LogQty(rows, m, "entrada") + LogQty(rows, m, "saida")
    + ExamQty(exs, m)

\* C26: ledger conservation for a lot-tracked material: the sum of its lot
\* balances is the initial sum plus the logged entries minus the logged exits
\* minus its usage over all exams, the log including the synthetic movements
\* of edits and cancellations; that is, no completed manual entry or exit,
\* exam insert, materials edit or cancellation changes the difference
\* between the two sides.
C26_LedgerConservation ==
    [][CompletedOp(ret') =>
         \A m \in DOMAIN estoque :
            Unaccounted(estoque', movements', exams', m)
              = Unaccounted(estoque, movements, exams, m)]_vars

\* C27: a materials edit is all-or-nothing: if one of the synthetic movements
\* it issues fails, the ledger, the movement log and the exam's stored usage
\* are as they were before the edit.
C27_EditAllOrNothing ==
    [][(ret'.op = "_apply_materials" /\ ret'.status = "Raised")
       => /\ estoque' = estoque
          /\ movements' = movements
          /\ exams' = exams]_vars

\* the part of C27 about the ledger alone: no earlier delta of a failed edit
\* remains applied to the lots
C27_LedgerAllOrNothing ==
    [][(ret'.op = "_apply_materials" /\ ret'.status = "Raised") => estoque' = estoque]_vars

\* both requests are cancellations of the same exam
TwoCancellations ==
    \A t \in Threads :
       /\ th[t].op.kind = "_confirm_cancel_exam"
       /\ \A u \in Threads : th[u].op.exid = th[t].op.exid

\* C28: two concurrent cancellation requests for the same exam credit the
\* ledger at most once: in every interleaving of their reads and writes,
\* what a step credits to a material is what it removes from the exams'
\* usage of that material, so the total credited is the exam's usage and not
\* twice that.
C28_ConcurrentCancelCreditsOnce ==
    [][TwoCancellations =>
         \A m \in MatIds :
            _sum_batches(estoque', m) + ExamQty(exams', m)
              = _sum_batches(estoque, m) + ExamQty(exams, m)]_vars

\* an unlotted exit record and an unlotted consumption item
UnlottedExit(rec) ==
    /\ rec.tipo = "saida" /\ rec.lote = NoLote /\ rec.validade = NoValidade
    /\ rec.quantidade > 0

UnlottedItem(items) ==
    Len(items) = 1 /\ items[1].lote_id = NoLotId /\ items[1].quantidade > 0

\* the results of the two calls agree on outcome and ledger
SameDebit(ok, est2, r) == ok = r.ok /\ est2 = r.est

\* C29: the two FIFO debits agree: an unlotted exit of q of material m through
\* add_stock_movement and consume_stock_by_batches([{m, q}]) leave the ledger
\* in the same state, both when the stock covers q and when it does not
\* (ledger unchanged, call refused).
C29_FifoDebitsAgree ==
    [][/\ (ret'.op = "add_stock_movement" /\ UnlottedExit(ret'.args))
          => SameDebit(ret'.ok, estoque',
                       consume_stock_by_batches(
                         <<Item(ret'.args.material_id, NoLotId, ret'.args.quantidade)>>,
                         estoque))
       /\ (ret'.op = "consume_stock_by_batches" /\ UnlottedItem(ret'.args))
          => SameDebit(ret'.ok, estoque',
                       add_stock_movement(
                         MovRec(ret'.args[1].material_id, "saida", ret'.args[1].quantidade,
                                NoLote, NoValidade, NoValor, ""),
                         movements, estoque))]_vars

\* an unlotted exit that was served from more than one lot
C29_Witness ==
    /\ ret.op = "add_stock_movement"
    /\ UnlottedExit(ret.args)
    /\ ret.ok
    /\ ret.args.quantidade > 1
    /\ ret.args.material_id \in DOMAIN estoque
    /\ Cardinality({i \in DOMAIN estoque[ret.args.material_id] :
                      estoque[ret.args.material_id][i].saldo = 0}) >= 2

\* an unlotted exit that the stock did not cover
C29_Refused ==
    /\ ret.op = "add_stock_movement"
    /\ UnlottedExit(ret.args)
    /\ ~ret.ok
    /\ ret.args.material_id \in DOMAIN estoque
    /\ _sum_batches(estoque, ret.args.material_id) > 0

\* the snapshot row of material id in the state after the step
RowOf(snap, id) == snap[SetMin({k \in DOMAIN snap : snap[k].id = id})]

\* a row with nothing aggregated and the opening balance as current balance
FreshRow(row) ==
    /\ row.entradas = 0 /\ row.saidas = 0 /\ row.ajustes = 0 /\ row.consumo_exames = 0
    /\ row.estoque_atual = row.estoque_inicial

\* C30: a material id is never reused: a newly added material gets an id that
\* no earlier material had (neither a catalogued one nor a deleted one), so
\* its snapshot row starts with zero aggregated entries, exits, adjustments
\* and exam consumption and a current balance equal to its opening balance.
C30_MaterialIdNeverReused ==
    [][ret'.op = "add_material" =>
         /\ ret'.id \notin CatalogIds(materials) \cup MatIds
         /\ FreshRow(RowOf(compute_stock_snapshot(materials', exams', movements', estoque'),
                           ret'.id))]_vars

\* the consequence alone: the row of a newly added material is fresh
C30_NewMaterialRowFresh ==
    [][ret'.op = "add_material" =>
         FreshRow(RowOf(compute_stock_snapshot(materials', exams', movements', estoque'),
                        ret'.id))]_vars

============================================================================
